---- MODULE Spec2Model ----
(***************************************************************************)
(* list_collections_dev.py: a command-line report over a Qdrant service.   *)
(* The module-level code validates the configuration, get_qclient connects *)
(* (with one retry on the URL with the other scheme),                      *)
(* list_qdrant_collections lists the collections and, for each one,        *)
(* process_collection reads its point count and get_collection_documents   *)
(* pages through its records collecting document identifiers.              *)
(*                                                                         *)
(* A Python str is a sequence of one-character strings, so that `in`,      *)
(* replace, split and f-string concatenation are computed as Python        *)
(* computes them. Fixed message fragments are single elements.             *)
(***************************************************************************)
EXTENDS Integers, Sequences, FiniteSets, TLC

\* ------------------------------------------------------------------ bounds
\* pages the service serves for one collection, at most, and records on one
\* page, at most, where scans are studied
MaxPages == 2
MaxPageLen == 2
\* the same where whole reports are studied
MaxReportPages == 1
MaxReportPageLen == 1
\* collections the service lists, at most
MaxCollections == 2
\* largest point count the service reports
MaxReported == 2

\* ------------------------------------------------------------ Python values
\* None (os.getenv of an unset variable): no str, and unequal to every str
NoneVal == <<"<None>">>
\* the empty str
EmptyStr == <<>>

\* `not x` for x a str or None
Falsy(x) == x = NoneVal \/ x = EmptyStr

\* a Python Optional[int]: <<>> is None, <<k>> is the int k
NoOffset == <<>>
\* truth value of an Optional[int]: None and 0 are false
Truthy(c) == c # NoOffset /\ c[1] # 0

\* `sub in s` for strs
Contains(s, sub) ==
    \E i \in 1..(Len(s) - Len(sub) + 1) : SubSeq(s, i, i + Len(sub) - 1) = sub

\* s.replace(old, new): every non-overlapping occurrence, left to right
RECURSIVE Replace(_, _, _)
Replace(s, old, new) ==
    IF Len(s) < Len(old) THEN s
    ELSE IF SubSeq(s, 1, Len(old)) = old
         THEN new \o Replace(SubSeq(s, Len(old) + 1, Len(s)), old, new)
         ELSE <<s[1]>> \o Replace(Tail(s), old, new)

\* s.split(sep): the parts between the occurrences of sep
RECURSIVE SplitFrom(_, _, _)
SplitFrom(s, sep, cur) ==
    IF Len(s) < Len(sep) THEN <<cur \o s>>
    ELSE IF SubSeq(s, 1, Len(sep)) = sep
         THEN <<cur>> \o SplitFrom(SubSeq(s, Len(sep) + 1, Len(s)), sep, <<>>)
         ELSE SplitFrom(Tail(s), sep, Append(cur, s[1]))

Split(s, sep) == SplitFrom(s, sep, <<>>)

\* int(s) for a str that is either all decimal digits or no number at all; -1
\* stands for the ValueError
DigitVal(ch) ==
    CASE ch = "0" -> 0 [] ch = "1" -> 1 [] ch = "2" -> 2 [] ch = "3" -> 3
      [] ch = "4" -> 4 [] ch = "5" -> 5 [] ch = "6" -> 6 [] ch = "7" -> 7
      [] ch = "8" -> 8 [] ch = "9" -> 9 [] OTHER -> -1

RECURSIVE IntOfFrom(_, _)
IntOfFrom(s, acc) ==
    IF s = <<>> THEN acc
    ELSE IF DigitVal(s[1]) < 0 THEN -1
         ELSE IntOfFrom(Tail(s), 10 * acc + DigitVal(s[1]))

IntOf(s) == IF s = <<>> THEN -1 ELSE IntOfFrom(s, 0)

\* --------------------------------------------------------------- constants
Http == <<"h", "t", "t", "p", ":", "/", "/">>
Https == <<"h", "t", "t", "p", "s", ":", "/", "/">>
Hyphen == <<"-">>
Unknown == <<"u", "n", "k", "n", "o", "w", "n">>
\* os.getenv('TIMEOUT', '300')
DefaultTimeout == <<"3", "0", "0">>

\* ------------------------------------------------------------------ inputs
Host == <<"d", "b">>
UrlHttps == Https \o Host
UrlHttp == Http \o Host
\* a URL with no scheme, which the client library accepts as host[:port]
UrlBare == Host
\* URLs that carry another URL in their path
UrlHttpsNested == Https \o <<"g", "/">> \o Http \o <<"x">>
UrlHttpNested == Http \o <<"g", "/">> \o Http \o <<"x">>

AllUrls == {UrlHttps, UrlHttp, UrlBare, UrlHttpsNested, UrlHttpNested}

EnvDev == <<"d", "e", "v">>
ApiKey == <<"k">>
TimeoutSixty == <<"6", "0">>
TimeoutBad == <<"x">>

AliceDocs == <<"a", "l", "i", "c", "e", "-", "d", "o", "c", "s">>
Shared == <<"s", "h", "a", "r", "e", "d">>
TwoHyphens == <<"b", "-", "c", "-", "d">>
LeadingHyphen == <<"-", "x">>

\* the service's collections in the order it lists them
Catalogue == <<Shared, AliceDocs, TwoHyphens, LeadingHyphen>>
CatalogueReversed == <<LeadingHyphen, TwoHyphens, AliceDocs, Shared>>

\* the listings the service may return: up to MaxCollections collections
Listings ==
    {SubSeq(Catalogue, 1, n) : n \in 0..MaxCollections}
        \cup {SubSeq(CatalogueReversed, 1, n) : n \in 0..MaxCollections}

S3 == <<"s", "3">>
Web == <<"w", "e", "b">>
ATxt == <<"a", ".", "t", "x", "t">>
BTxt == <<"b", ".", "t", "x", "t">>

\* A record (point) as the scan reads it: payload is None or a dict;
\* flat holds the payload's own keys other than metadata;
\* metadata is absent from the payload, a non-dict value or a dict;
\* document_name and source hold the value of that key of the metadata dict,
\* or nothing when the key is absent.
Point(payload, flat, metadata, document_name, source) ==
    [payload |-> payload, flat |-> flat, metadata |-> metadata,
     document_name |-> document_name, source |-> source]

PNone == Point("None", {}, "absent", {}, {})
PEmpty == Point("dict", {}, "absent", {}, {})
PFlat == Point("dict", {"document_name", "source"}, "absent", {}, {})
PMetaStr == Point("dict", {}, "other", {}, {})
PMetaNoDoc == Point("dict", {}, "dict", {}, {S3})
PAS3 == Point("dict", {}, "dict", {ATxt}, {S3})
PBWeb == Point("dict", {"source"}, "dict", {BTxt}, {Web})
PNoSource == Point("dict", {}, "dict", {ATxt}, {})

AllPoints == {PNone, PEmpty, PFlat, PMetaStr, PMetaNoDoc, PAS3, PBWeb, PNoSource}

\* collection_info as get_collection returns it: without a points_count
\* attribute, with points_count None, or with an int
Info(has, none, n) == [hasattr |-> has, isNone |-> none, points_count |-> n]
InfoNoAttr == Info(FALSE, FALSE, 0)
InfoNone == Info(TRUE, TRUE, 0)

ErrRefused == <<"refused">>
ErrTimeout == <<"timed out">>
AllErrors == {ErrRefused, ErrTimeout}

\* sequences over S of length at most n
RECURSIVE SeqsUpTo(_, _)
SeqsUpTo(S, n) ==
    IF n = 0 THEN {<<>>}
    ELSE LET shorter == SeqsUpTo(S, n - 1)
         IN shorter \cup {Append(q, x) : q \in {r \in shorter : Len(r) = n - 1}, x \in S}

VARIABLES
    environ,            \* the process environment os.getenv reads
    db,                 \* what the service holds and how its calls may fail
    pc,                 \* position of the program
    ENV_NAME, QDRANT_URL, QDRANT_API_KEY, TIMEOUT,      \* module globals
    qdrant,             \* the client list_qdrant_collections holds (its URL)
    e1,                 \* get_qclient: the first attempt's exception text
    modified_url,       \* get_qclient: the retry's URL
    collections,        \* list_qdrant_collections: the listing
    idx,                \* position of the for loop over collections
    username, point_count,                            \* process_collection
    unique_documents, offset, next_offset, all_processed, points_count,
                                                      \* get_collection_documents
    exc,                \* the exception raised, <<>> when none
    out,                \* lines printed to standard output
    calls,              \* the calls made on the client library, in order
    served,             \* records the service has served in the current scan
    page,               \* the latest page it served: its length and its cursor
    visits              \* iterations of `for point in points` over that page

vars == <<environ, db, pc, ENV_NAME, QDRANT_URL, QDRANT_API_KEY, TIMEOUT, qdrant,
          e1, modified_url, collections, idx, username, point_count,
          unique_documents, offset, next_offset, all_processed, points_count,
          exc, out, calls, served, page, visits>>

\* ------------------------------------------------------------- exceptions
Exc(type, msg) == [type |-> type, msg |-> msg]
NoExc == Exc("", <<>>)

\* line 14, 19, 23: the three configuration errors
EnvNameRequired == Exc("ValueError", <<"ENV_NAME environment variable is required">>)
UrlRequired == Exc("ValueError", <<"QDRANT_URL environment variable is required">>)
ApiKeyRequired == Exc("ValueError", <<"QDRANT_API_KEY environment variable is required">>)
\* int() of a str that is no number
TimeoutInvalid == Exc("ValueError", <<"invalid literal for int() with base 10">>)
\* metadata['source'] of a dict without that key; str(KeyError('source'))
SourceKeyError == Exc("KeyError", <<"'source'">>)
\* f"{None:<20}"
NoneFormatError ==
    Exc("TypeError", <<"unsupported format string passed to NoneType.__format__">>)

\* line 58: the message of the ConnectionError
ConnectionErrorMsgOnlyLast(e, e2) ==
    <<"Failed to connect to Qdrant server. Please check your URL and API key.">>
        \o <<"\nOriginal error: ">> \o e2 \o <<"\nModified URL error: ">> \o e2

ConnectionErrorMsg(e, e2) ==
    <<"Failed to connect to Qdrant server. Please check your URL and API key.">>
        \o <<"\nOriginal error: ">> \o e \o <<"\nModified URL error: ">> \o e2

\* ----------------------------------------------------------------- output
\* one printed line: its kind and the values formatted into it
Line(kind, s1, s2, n1, n2, docs) ==
    [kind |-> kind, s1 |-> s1, s2 |-> s2, n1 |-> n1, n2 |-> n2, docs |-> docs]

FailedOriginalLine(e) == Line("failed_original", e, <<>>, 0, 0, {})
AttemptingLine(url) == Line("attempting", url, <<>>, 0, 0, {})
TitleLine(env) == Line("title", env, <<>>, 0, 0, {})
SeparatorLine == Line("separator", <<>>, <<>>, 0, 0, {})
HeaderLine == Line("header", <<>>, <<>>, 0, 0, {})
NoneFoundLine == Line("none_found", <<>>, <<>>, 0, 0, {})
RowLine(user, name, points, ndocs) == Line("row", user, name, points, ndocs, {})
\* print_collection_documents: the heading and one numbered line per document,
\* in the set's iteration order
DocumentsLine(name, docs) == Line("documents", name, <<>>, 0, 0, docs)
ErrorLine(msg) == Line("error", msg, <<>>, 0, 0, {})

\* ------------------------------------------------------------------ calls
\* one call on the client library: the constructor (its url, api_key and
\* timeout), get_collections, get_collection (its collection) or scroll (its
\* collection and offset); whether it returned or raised err; and
\* the collection info get_collection returned
Call(op, target, key, timeout, off, ok, err, info) ==
    [op |-> op, target |-> target, key |-> key, timeout |-> timeout, offset |-> off,
     ok |-> ok, err |-> err, info |-> info]

ConstructCall(url, ok, err) ==
    Call("QdrantClient", url, QDRANT_API_KEY, TIMEOUT, NoOffset, ok, err, InfoNoAttr)
GetCollectionsCall(url, ok, err) ==
    Call("get_collections", url, <<>>, 0, NoOffset, ok, err, InfoNoAttr)
GetCollectionCall(name, ok, err, info) ==
    Call("get_collection", name, <<>>, 0, NoOffset, ok, err, info)
ScrollCall(name, off, ok, err) ==
    Call("scroll", name, <<>>, 0, off, ok, err, InfoNoAttr)

\* what a call may do: return, or raise one of the service's errors
Outcomes == {[ok |-> TRUE, err |-> <<>>]} \cup {[ok |-> FALSE, err |-> e] : e \in db.errors}

\* a connection attempt: both calls return, the constructor raises, or the
\* get_collections round-trip raises
AttemptOutcomes ==
    {[stage |-> "ok", err |-> <<>>]}
        \cup {[stage |-> s, err |-> e] : s \in {"construct", "verify"}, e \in db.errors}

\* the calls of one connection attempt on url with outcome o
AttemptCalls(url, o) ==
    IF o.stage = "construct" THEN <<ConstructCall(url, FALSE, o.err)>>
    ELSE <<ConstructCall(url, TRUE, <<>>), GetCollectionsCall(url, o.stage = "ok", o.err)>>

\* ---------------------------------------------------------------- initial
\* no page served yet in this scan
NoPage == [n |-> 0, cursor |-> NoOffset]

NoClient == NoneVal

ScanVarsReset ==
    /\ username' = <<>>
    /\ point_count' = NoOffset
    /\ unique_documents' = {}
    /\ offset' = NoOffset
    /\ next_offset' = NoOffset
    /\ all_processed' = FALSE
    /\ points_count' = 0

InitWith(urls, timeouts, listings, records, infos, errors, pages, pageLen) ==
    /\ environ \in [ENV_NAME : {NoneVal, EmptyStr, EnvDev},
                    QDRANT_URL : {NoneVal, EmptyStr} \cup urls,
                    QDRANT_API_KEY : {NoneVal, EmptyStr, ApiKey},
                    TIMEOUT : timeouts]
    /\ db \in [collections : listings, records : {records}, infos : {infos},
               errors : {errors}, maxPages : {pages}, maxPageLen : {pageLen}]
    /\ pc = "module"
    /\ ENV_NAME = NoneVal
    /\ QDRANT_URL = NoneVal
    /\ QDRANT_API_KEY = NoneVal
    /\ TIMEOUT = 0
    /\ qdrant = NoClient
    /\ e1 = <<>>
    /\ modified_url = <<>>
    /\ collections = <<>>
    /\ idx = 0
    /\ username = <<>>
    /\ point_count = NoOffset
    /\ unique_documents = {}
    /\ offset = NoOffset
    /\ next_offset = NoOffset
    /\ all_processed = FALSE
    /\ points_count = 0
    /\ exc = NoExc
    /\ out = <<>>
    /\ calls = <<>>
    /\ served = {}
    /\ page = NoPage
    /\ visits = 0

\* ------------------------------------------------------- module-level code
\* lines 12-25 with the URL check left out
ConfigErrorNoUrlCheck ==
    IF Falsy(environ.ENV_NAME) THEN EnvNameRequired
    ELSE IF Falsy(environ.QDRANT_API_KEY) THEN ApiKeyRequired
    ELSE IF IntOf(IF environ.TIMEOUT = NoneVal THEN DefaultTimeout ELSE environ.TIMEOUT) < 0
         THEN TimeoutInvalid
    ELSE NoExc

\* lines 12-25: the first configuration check that fails, NoExc when none does
ConfigError ==
    IF Falsy(environ.ENV_NAME) THEN EnvNameRequired
    ELSE IF Falsy(environ.QDRANT_URL) THEN UrlRequired
    ELSE IF Falsy(environ.QDRANT_API_KEY) THEN ApiKeyRequired
    ELSE IF IntOf(IF environ.TIMEOUT = NoneVal THEN DefaultTimeout ELSE environ.TIMEOUT) < 0
         THEN TimeoutInvalid
    ELSE NoExc

\* lines 9-25 and 231-232: read the configuration; an error ends the process
\* with an uncaught exception, otherwise list_qdrant_collections starts
ModuleInit ==
    /\ pc = "module"
    /\ ENV_NAME' = environ.ENV_NAME
    /\ QDRANT_URL' = IF ConfigError = EnvNameRequired THEN QDRANT_URL ELSE environ.QDRANT_URL
    /\ QDRANT_API_KEY' = IF ConfigError \in {EnvNameRequired, UrlRequired}
                         THEN QDRANT_API_KEY ELSE environ.QDRANT_API_KEY
    /\ TIMEOUT' = IF ConfigError = NoExc
                  THEN IntOf(IF environ.TIMEOUT = NoneVal THEN DefaultTimeout
                             ELSE environ.TIMEOUT)
                  ELSE TIMEOUT
    /\ exc' = ConfigError
    /\ pc' = IF ConfigError = NoExc THEN "connect" ELSE "crashed"
    /\ UNCHANGED <<environ, db, qdrant, e1, modified_url, collections, idx, username,
                   point_count, unique_documents, offset, next_offset, all_processed,
                   points_count, out, calls, served, page, visits>>

\* -------------------------------------------------------------- get_qclient
\* line 45: modified_url
ModifiedUrl(url) ==
    IF Contains(url, Http) THEN Replace(url, Http, Https) ELSE Replace(url, Https, Http)

\* lines 29-46: the attempt on QDRANT_URL; when it raises, both messages are
\* printed and the retry's URL is derived
ConnectOriginal ==
    /\ pc = "connect"
    /\ \E o \in AttemptOutcomes :
        /\ calls' = calls \o AttemptCalls(QDRANT_URL, o)
        /\ IF o.stage = "ok"
           THEN /\ qdrant' = QDRANT_URL
                /\ pc' = "list"
                /\ UNCHANGED <<e1, modified_url, out>>
           ELSE /\ e1' = o.err
                /\ modified_url' = ModifiedUrl(QDRANT_URL)
                /\ out' = out \o <<FailedOriginalLine(o.err),
                                   AttemptingLine(ModifiedUrl(QDRANT_URL))>>
                /\ pc' = "retry"
                /\ UNCHANGED qdrant
    /\ UNCHANGED <<environ, db, ENV_NAME, QDRANT_URL, QDRANT_API_KEY, TIMEOUT,
                   collections, idx, username, point_count, unique_documents, offset,
                   next_offset, all_processed, points_count, exc, served, page, visits>>

\* lines 48-58: the attempt on modified_url; when it raises, get_qclient raises
\* the ConnectionError
ConnectModified ==
    /\ pc = "retry"
    /\ \E o \in AttemptOutcomes :
        /\ calls' = calls \o AttemptCalls(modified_url, o)
        /\ IF o.stage = "ok"
           THEN /\ qdrant' = modified_url
                /\ pc' = "list"
                /\ UNCHANGED exc
           ELSE /\ exc' = Exc("ConnectionError", ConnectionErrorMsg(e1, o.err))
                /\ pc' = "except"
                /\ UNCHANGED qdrant
    /\ UNCHANGED <<environ, db, ENV_NAME, QDRANT_URL, QDRANT_API_KEY, TIMEOUT, e1,
                   modified_url, collections, idx, username, point_count,
                   unique_documents, offset, next_offset, all_processed, points_count,
                   out, served, page, visits>>

\* ------------------------------------------------- list_qdrant_collections
\* lines 208-226 up to the first process_collection: list the collections and
\* print the heading, or "No collections found"
ListCollections ==
    /\ pc = "list"
    /\ \E o \in Outcomes :
        /\ calls' = Append(calls, GetCollectionsCall(qdrant, o.ok, o.err))
        /\ IF ~o.ok
           THEN /\ exc' = Exc("Exception", o.err)
                /\ pc' = "except"
                /\ UNCHANGED <<collections, idx, out>>
           ELSE /\ collections' = db.collections
                /\ UNCHANGED exc
                /\ IF db.collections # <<>>
                   THEN /\ out' = out \o <<TitleLine(ENV_NAME), SeparatorLine,
                                           HeaderLine, SeparatorLine>>
                        /\ idx' = 1
                        /\ pc' = "collection"
                   ELSE /\ out' = out \o <<TitleLine(ENV_NAME), SeparatorLine,
                                           NoneFoundLine>>
                        /\ idx' = idx
                        /\ pc' = "done"
    /\ UNCHANGED <<environ, db, ENV_NAME, QDRANT_URL, QDRANT_API_KEY, TIMEOUT, qdrant,
                   e1, modified_url, username, point_count, unique_documents, offset,
                   next_offset, all_processed, points_count, served, page, visits>>

\* lines 228-229: the driver's handler prints the error and the driver returns
DriverExceptReraise ==
    /\ pc = "except"
    /\ pc' = "crashed"
    /\ UNCHANGED <<environ, db, ENV_NAME, QDRANT_URL, QDRANT_API_KEY, TIMEOUT, qdrant,
                   e1, modified_url, collections, idx, username, point_count,
                   unique_documents, offset, next_offset, all_processed, points_count,
                   exc, out, calls, served, page, visits>>

DriverExcept ==
    /\ pc = "except"
    /\ out' = Append(out, ErrorLine(exc.msg))
    /\ pc' = "done"
    /\ UNCHANGED <<environ, db, ENV_NAME, QDRANT_URL, QDRANT_API_KEY, TIMEOUT, qdrant,
                   e1, modified_url, collections, idx, username, point_count,
                   unique_documents, offset, next_offset, all_processed, points_count,
                   exc, calls, served, page, visits>>

\* ------------------------------------------------------ process_collection
\* line 182 splitting at the last hyphen
UsernameOfLastHyphen(collection_name) ==
    IF Contains(collection_name, Hyphen)
    THEN LET parts == Split(collection_name, Hyphen)
         IN SubSeq(collection_name, 1, Len(collection_name) - Len(parts[Len(parts)]) - 1)
    ELSE Unknown

\* line 182: username
UsernameOf(collection_name) ==
    IF Contains(collection_name, Hyphen) THEN Split(collection_name, Hyphen)[1]
    ELSE Unknown

\* line 186: point_count, an Optional[int]
PointCountOf(info) ==
    IF info.hasattr THEN (IF info.isNone THEN NoOffset ELSE <<info.points_count>>)
    ELSE <<0>>

\* lines 181-186 and 63-69: the username, the reported point count, and the
\* scan's initial state
GetCollectionInfo ==
    /\ pc = "collection"
    /\ served' = {}
    /\ page' = NoPage
    /\ visits' = 0
    /\ \E o \in Outcomes :
        IF ~o.ok
        THEN /\ calls' = Append(calls, GetCollectionCall(collections[idx], FALSE, o.err,
                                                         InfoNoAttr))
             /\ exc' = Exc("Exception", o.err)
             /\ pc' = "except"
             /\ ScanVarsReset
        ELSE \E info \in db.infos :
             /\ calls' = Append(calls, GetCollectionCall(collections[idx], TRUE, <<>>, info))
             /\ point_count' = PointCountOf(info)
             /\ username' = UsernameOf(collections[idx])
             /\ unique_documents' = {}
             /\ offset' = NoOffset
             /\ next_offset' = NoOffset
             /\ all_processed' = FALSE
             /\ points_count' = 0
             /\ pc' = "scan"
             /\ UNCHANGED exc
    /\ UNCHANGED <<environ, db, ENV_NAME, QDRANT_URL, QDRANT_API_KEY, TIMEOUT, qdrant,
                   e1, modified_url, collections, idx, out>>

\* ------------------------------------------------ get_collection_documents
\* line 95: doc_name_with_source
DocId(source, doc_name) == <<"[">> \o source \o <<"]", " ", ":", " ">> \o doc_name

\* line 86: `if point.payload`, false for None and for the empty dict
PayloadTruthy(point) ==
    point.payload = "dict" /\ (point.flat # {} \/ point.metadata # "absent")

\* lines 86-91 reading document_name from the payload's own keys as well
HasDocumentNameFlat(point) ==
    /\ PayloadTruthy(point)
    /\ \/ point.metadata = "dict" /\ point.document_name # {}
       \/ "document_name" \in point.flat

\* lines 86-93 with the source looked up before the record is taken
HasDocumentNameAndSource(point) ==
    /\ PayloadTruthy(point)
    /\ point.metadata = "dict"
    /\ point.document_name # {}
    /\ point.source # {}

\* lines 86-91: the record reaches line 92
HasDocumentName(point) ==
    /\ PayloadTruthy(point)
    /\ point.metadata = "dict"
    /\ point.document_name # {}

\* lines 84-96 over the page from its i-th record on: the documents, the
\* iterations made, and whether metadata['source'] raised
RECURSIVE ScanPoints(_, _, _, _)
ScanPoints(points, i, docs, n) ==
    IF i > Len(points) THEN [docs |-> docs, visits |-> n, raised |-> FALSE]
    ELSE IF ~HasDocumentName(points[i]) THEN ScanPoints(points, i + 1, docs, n + 1)
    ELSE IF points[i].source = {} THEN [docs |-> docs, visits |-> n + 1, raised |-> TRUE]
    ELSE ScanPoints(points, i + 1,
                    docs \cup {DocId(s, d) : s \in points[i].source,
                                             d \in points[i].document_name},
                    n + 1)

\* line 114 testing the cursor alone
ContinueOnCursor(cursor, points) == Truthy(cursor)

\* line 114: `if next_offset and points`
Continue(cursor, points) == Truthy(cursor) /\ points # <<>>

\* line 115 keeping the offset of the previous request
AdvancedOffsetStale(old_offset, cursor) == old_offset

\* line 115: offset = next_offset
AdvancedOffset(old_offset, cursor) == cursor

\* the number of the page a scroll at this offset asks for
FetchNo(off) == IF off = NoOffset THEN 1 ELSE off[1] + 1

\* The cursors the service may return with the page asked for at off: none,
\* or the token of the next page (a fresh, nonzero record id); the last of
\* db.maxPages pages carries none.
Cursors(off) ==
    {NoOffset} \cup (IF FetchNo(off) < db.maxPages THEN {<<FetchNo(off)>>} ELSE {})

\* lines 71-117: one iteration of the while loop: fetch a page, read its
\* records, then advance the offset or end the loop
Scroll ==
    /\ pc = "scan"
    /\ ~all_processed
    /\ \E o \in Outcomes :
        IF ~o.ok
        THEN /\ calls' = Append(calls, ScrollCall(collections[idx], offset, FALSE, o.err))
             /\ exc' = Exc("Exception", o.err)
             /\ pc' = "except"
             /\ ScanVarsReset
             /\ UNCHANGED <<served, page, visits>>
        ELSE \E points \in SeqsUpTo(db.records, db.maxPageLen), cursor \in Cursors(offset) :
             LET r == ScanPoints(points, 1, unique_documents, 0)
             IN /\ calls' = Append(calls, ScrollCall(collections[idx], offset, TRUE, <<>>))
                /\ served' = served \cup {points[i] : i \in 1..Len(points)}
                /\ page' = [n |-> Len(points), cursor |-> cursor]
                /\ visits' = r.visits
                /\ IF r.raised
                   THEN /\ exc' = SourceKeyError
                        /\ pc' = "except"
                        /\ ScanVarsReset
                   ELSE /\ unique_documents' = r.docs
                        /\ points_count' = Len(points)
                        /\ next_offset' = cursor
                        /\ offset' = IF Continue(cursor, points)
                                     THEN AdvancedOffset(offset, cursor) ELSE offset
                        /\ all_processed' = ~Continue(cursor, points)
                        /\ UNCHANGED <<pc, exc, username, point_count>>
    /\ UNCHANGED <<environ, db, ENV_NAME, QDRANT_URL, QDRANT_API_KEY, TIMEOUT, qdrant,
                   e1, modified_url, collections, idx, out>>

\* lines 192-193 with the fallback applied to every count
ReportedCountAlwaysLocal(count, docs) == <<Cardinality(docs)>>

\* lines 192-193: the point count of the row
ReportedCount(count, docs) == IF count = <<0>> THEN <<Cardinality(docs)>> ELSE count

\* lines 196-199: the row, and the documents listing when there are documents
CollectionLines(user, name, count, docs) ==
    <<RowLine(user, name, count[1], Cardinality(docs))>>
        \o (IF docs # {} THEN <<DocumentsLine(name, docs)>> ELSE <<>>)

\* lines 119, 189-199 and 218-221: the scan returns, the row is printed, and
\* the loop goes to the next collection or prints the closing separator
FinishCollection ==
    /\ pc = "scan"
    /\ all_processed
    /\ LET count == ReportedCount(point_count, unique_documents)
       IN IF count = NoOffset
          THEN /\ exc' = NoneFormatError
               /\ pc' = "except"
               /\ UNCHANGED <<out, idx>>
          ELSE /\ UNCHANGED exc
               /\ IF idx < Len(collections)
                  THEN /\ out' = out \o CollectionLines(username, collections[idx], count,
                                                        unique_documents)
                       /\ idx' = idx + 1
                       /\ pc' = "collection"
                  ELSE /\ out' = out \o CollectionLines(username, collections[idx], count,
                                                        unique_documents)
                                     \o <<SeparatorLine>>
                       /\ idx' = idx
                       /\ pc' = "done"
    /\ ScanVarsReset
    /\ UNCHANGED <<environ, db, ENV_NAME, QDRANT_URL, QDRANT_API_KEY, TIMEOUT, qdrant,
                   e1, modified_url, collections, calls, served, page, visits>>

\* ----------------------------------------------------------- specification
Next ==
    \/ ModuleInit
    \/ ConnectOriginal
    \/ ConnectModified
    \/ ListCollections
    \/ GetCollectionInfo
    \/ Scroll
    \/ FinishCollection
    \/ DriverExcept

\* the whole report: one URL, every listing and collection info, a few records
ReportPoints == {PNone, PAS3, PNoSource}
ReportInfos == {InfoNoAttr, InfoNone, Info(TRUE, FALSE, 0), Info(TRUE, FALSE, MaxReported)}
Init ==
    InitWith({UrlHttps}, {NoneVal}, Listings, ReportPoints, ReportInfos, {ErrRefused},
             MaxReportPages, MaxReportPageLen)
Spec == Init /\ [][Next]_vars

\* the connector: every URL and timeout setting, two error texts
SpecConnectorInit ==
    InitWith(AllUrls, {NoneVal, TimeoutSixty, TimeoutBad}, {<<>>, <<Shared>>}, {PAS3},
             {Info(TRUE, FALSE, 0)}, AllErrors, MaxReportPages, MaxReportPageLen)
SpecConnector == SpecConnectorInit /\ [][Next]_vars

\* the scan of one collection over every kind of record
SpecScanInit ==
    InitWith({UrlHttps}, {NoneVal}, {<<AliceDocs>>}, AllPoints,
             {Info(TRUE, FALSE, 0), Info(TRUE, FALSE, MaxReported)}, {ErrRefused},
             MaxPages, MaxPageLen)
SpecScan == SpecScanInit /\ [][Next]_vars

\* the scan's loop: pages of records that contribute, do not, or raise; the
\* program runs on while it has a step to take
SpecLoopInit ==
    InitWith({UrlHttps}, {NoneVal}, {<<AliceDocs>>}, ReportPoints, {Info(TRUE, FALSE, 0)},
             {ErrRefused}, MaxPages, MaxPageLen)
SpecLoop == SpecLoopInit /\ [][Next]_vars /\ WF_vars(Next)

\* ================================================================ claims
\* what the claims read from the log of calls and from the output
IsConstruct(c) == c.op = "QdrantClient"
IsInfoCall(c) == c.op = "get_collection"
IsScrollCall(c) == c.op = "scroll"
IsRow(l) == l.kind = "row"
IsErrorLine(l) == l.kind = "error"
IsSeparator(l) == l.kind = "separator"

\* connection attempts made so far: one constructor call each
Attempts == Len(SelectSeq(calls, IsConstruct))
\* an attempt starting at call i raised, in the constructor or in its round-trip
AttemptFailedAt(i) == ~calls[i].ok \/ ~calls[i + 1].ok
AttemptErrAt(i) == IF ~calls[i].ok THEN calls[i].err ELSE calls[i + 1].err
\* the call after the attempt starting at call i
AttemptEnd(i) == IF calls[i].ok THEN i + 1 ELSE i
FirstFailed == calls # <<>> /\ AttemptFailedAt(1)
\* where the retry starts, once it has been made
RetryAt == AttemptEnd(1) + 1
RetryMade == FirstFailed /\ Len(calls) >= RetryAt
BothFailed == RetryMade /\ AttemptFailedAt(RetryAt)

\* C1: get_qclient makes at most two connection attempts, each successful
\* construction verified by a get_collections round-trip on the same URL. When
\* the first attempt succeeds its client is returned and there is no second
\* attempt; when it fails exactly one retry follows; when the retry fails too
\* the ConnectionError carries the error texts of both failures, no client is
\* returned, and no further call is made.
C1_TwoShotConnect ==
    /\ Attempts <= 2
    /\ \A i \in DOMAIN calls :
        IsConstruct(calls[i]) /\ calls[i].ok
            => /\ i < Len(calls)
               /\ calls[i + 1].op = "get_collections"
               /\ calls[i + 1].target = calls[i].target
    /\ calls # <<>> =>
        /\ IsConstruct(calls[1])
        /\ calls[1].target = QDRANT_URL
    /\ calls # <<>> /\ ~FirstFailed => Attempts = 1 /\ qdrant = QDRANT_URL
    /\ FirstFailed => IF pc = "retry" THEN Attempts = 1 /\ Len(calls) = AttemptEnd(1)
                      ELSE Attempts = 2 /\ IsConstruct(calls[RetryAt])
    /\ RetryMade /\ ~BothFailed => qdrant = calls[RetryAt].target
    /\ BothFailed =>
        /\ exc.type = "ConnectionError"
        /\ Contains(exc.msg, AttemptErrAt(1))
        /\ Contains(exc.msg, AttemptErrAt(RetryAt))
        /\ qdrant = NoClient
        /\ pc \in {"except", "done"}
        /\ Len(calls) = AttemptEnd(RetryAt)

\* both attempts failed, with different errors, and the report has ended
C1_BothAttemptsFailed ==
    /\ pc = "done"
    /\ BothFailed
    /\ AttemptErrAt(1) = ErrRefused
    /\ AttemptErrAt(RetryAt) = ErrTimeout
    /\ out[Len(out)] = ErrorLine(exc.msg)

\* s starts with p
StartsWith(s, p) == Len(s) >= Len(p) /\ SubSeq(s, 1, Len(p)) = p
AfterPrefix(s, p) == SubSeq(s, Len(p) + 1, Len(s))

\* C2: for every configured URL whose first attempt fails, the retry's URL is
\* the configured one with its scheme toggled: https://rest is retried as
\* http://rest and http://rest as https://rest, nothing else changed.
C2_RetryTogglesScheme ==
    RetryMade =>
        LET original == calls[1].target
            retry == calls[RetryAt].target
        IN \/ StartsWith(original, Https) /\ retry = Http \o AfterPrefix(original, Https)
           \/ StartsWith(original, Http) /\ retry = Https \o AfterPrefix(original, Http)

\* a required configuration value is missing or empty
ConfigMissing ==
    \/ Falsy(environ.ENV_NAME)
    \/ Falsy(environ.QDRANT_URL)
    \/ Falsy(environ.QDRANT_API_KEY)

\* C3: when ENV_NAME, QDRANT_URL or QDRANT_API_KEY is missing or empty, the
\* program ends at startup with a ValueError, and no client is constructed and
\* no get_collections, get_collection or scroll is ever called.
C3_ConfigErrorBeforeNetwork ==
    ConfigMissing =>
        /\ calls = <<>>
        /\ qdrant = NoClient
        /\ pc \in {"module", "crashed"}
        /\ pc = "crashed" => exc.type = "ValueError" /\ out = <<>>

\* the URL alone is missing and the program has ended
C3_UrlMissingCrashed ==
    /\ pc = "crashed"
    /\ environ.ENV_NAME = EnvDev
    /\ environ.QDRANT_URL = NoneVal
    /\ environ.QDRANT_API_KEY = ApiKey
    /\ exc = UrlRequired

Rows == SelectSeq(out, IsRow)
InfoCalls == SelectSeq(calls, IsInfoCall)
\* the position of the first hyphen of a name that has one
FirstHyphen(name) ==
    CHOOSE j \in 1..Len(name) : name[j] = "-" /\ \A k \in 1..(j - 1) : name[k] # "-"

\* the username the claim gives a collection name
NameUsername(name) ==
    IF \E j \in 1..Len(name) : name[j] = "-"
    THEN SubSeq(name, 1, FirstHyphen(name) - 1)
    ELSE <<"u", "n", "k", "n", "o", "w", "n">>

\* C9: the username of a collection is a function of its name alone: the part
\* before the first hyphen, or "unknown" for a name without a hyphen, whatever
\* the collection's records and point count and whatever was processed before;
\* "alice-docs" gives "alice" and "shared" gives "unknown".
C9_UsernameFromName ==
    /\ \A i \in DOMAIN out :
        IsRow(out[i]) =>
            /\ out[i].s1 = NameUsername(out[i].s2)
            /\ out[i].s2 = AliceDocs => out[i].s1 = <<"a", "l", "i", "c", "e">>
            /\ out[i].s2 = Shared => out[i].s1 = Unknown
    /\ pc = "scan" => username = NameUsername(collections[idx])

\* a finished report with the rows of "shared" and of "alice-docs", the latter
\* with documents found
C9_TwoRows ==
    /\ pc = "done"
    /\ Len(Rows) = 2
    /\ Rows[1].s2 = Shared /\ Rows[1].s1 = Unknown
    /\ Rows[2].s2 = AliceDocs /\ Rows[2].s1 = <<"a", "l", "i", "c", "e">>
    /\ Rows[2].n2 = 1

\* get_collection calls among the first i calls
InfoCallsUpTo(i) == Cardinality({j \in 1..i : IsInfoCall(calls[j])})
Separators == Len(SelectSeq(out, IsSeparator))

\* C10: collections are processed in the order the service lists them, each at
\* most once. A failure while one is processed (a record whose metadata has
\* document_name and no source is one: the scan raises) ends the report: the
\* rows of the collections before it stay, it gets no row, no later collection
\* is queried or printed, and the closing separator is not printed.
C10_FailureEndsReport ==
    LET k == Len(InfoCalls)
    IN /\ k <= Len(collections)
       /\ \A j \in 1..k : InfoCalls[j].target = collections[j]
       /\ \A i \in DOMAIN calls :
            IsScrollCall(calls[i]) => calls[i].target = collections[InfoCallsUpTo(i)]
       /\ Len(Rows) \in {k - 1, k}
       /\ \A j \in 1..Len(Rows) : Rows[j].s2 = collections[j]
       /\ PNoSource \in served => exc = SourceKeyError
       /\ exc # NoExc /\ k >= 1 =>
            /\ pc \in {"except", "done"}
            /\ Len(Rows) = k - 1
            /\ Separators = 2
       /\ pc = "done" /\ exc = NoExc /\ collections # <<>> =>
            /\ Len(Rows) = Len(collections)
            /\ Separators = 3

\* the second of two collections served a record without source: the report
\* ended with the first collection's row alone
C10_SecondCollectionFails ==
    /\ pc = "done"
    /\ Len(collections) = 2
    /\ PNoSource \in served
    /\ exc = SourceKeyError
    /\ Len(Rows) = 1
    /\ out[Len(out)] = ErrorLine(SourceKeyError.msg)

\* calls that raised, the first connection attempt's apart
RaisedCalls == {i \in DOMAIN calls : ~calls[i].ok /\ i > AttemptEnd(1)}
ErrorLines == Len(SelectSeq(out, IsErrorLine))

\* C6: a failure raised while connecting (the ConnectionError), listing the
\* collections, reading a collection's info or paging its records is not
\* suppressed: the call that raised is the last call made (nothing is retried),
\* the exception reaches the driver, which prints exactly one error line with
\* the failure's text and returns normally; the driver itself never raises.
C6_DriverCatchesAll ==
    /\ \A i \in RaisedCalls :
        /\ i = Len(calls)
        /\ pc \in {"except", "done"}
        /\ Contains(exc.msg, calls[i].err)
    /\ exc # NoExc => pc \in {"except", "done", "crashed"}
    /\ pc = "except" => exc # NoExc /\ ErrorLines = 0
    /\ pc = "done" =>
        IF exc = NoExc THEN ErrorLines = 0
        ELSE ErrorLines = 1 /\ out[Len(out)] = ErrorLine(exc.msg)
    /\ pc = "crashed" => calls = <<>>

\* a scroll raised and the driver has printed its error and returned
C6_ScrollFailureReported ==
    /\ pc = "done"
    /\ calls[Len(calls)].op = "scroll"
    /\ ~calls[Len(calls)].ok
    /\ out[Len(out)] = ErrorLine(ErrRefused)

\* the count the service reported, an absent count taken as zero
ServiceCount(info) == IF info.hasattr /\ ~info.isNone THEN info.points_count ELSE 0
\* this step prints a collection's row
RowPrinted == Len(Rows') = Len(Rows) + 1
\* what C8 says of any printed row: the service's count when nonzero, else
\* the number of unique documents found
RowCountRule ==
    LET info == InfoCalls[Len(InfoCalls)].info
        row == Rows'[Len(Rows')]
    IN /\ row.n2 = Cardinality(unique_documents)
       /\ row.n1 = IF ServiceCount(info) # 0 THEN ServiceCount(info)
                   ELSE Cardinality(unique_documents)

Contributes(r) ==
    r.payload = "dict" /\ r.metadata = "dict" /\ r.document_name # {} /\ r.source # {}
IdsOf(S) ==
    {<<"[">> \o src \o <<"]", " ", ":", " ">> \o doc :
        <<src, doc>> \in UNION {r.source \X r.document_name : r \in {x \in S : Contributes(x)}}}
\* a nested metadata mapping with document_name and without source
LacksSource(r) ==
    r.payload = "dict" /\ r.metadata = "dict" /\ r.document_name # {} /\ r.source = {}

\* the scroll calls of the collection being scanned
LastInfoCall == CHOOSE i \in DOMAIN calls :
    IsInfoCall(calls[i]) /\ \A j \in (i + 1)..Len(calls) : ~IsInfoCall(calls[j])
CurrentScrolls == SelectSeq(SubSeq(calls, LastInfoCall + 1, Len(calls)), IsScrollCall)

\* what C4 says of a scan that has not raised: the set holds the identifiers
\* of all records served, each page served was asked for once, the first
\* with no offset and each next one with the cursor of the page before, and
\* every record of the latest page was visited once
ScanCollectsAll ==
    /\ unique_documents = IdsOf(served)
    /\ \A i, j \in DOMAIN CurrentScrolls :
        i # j => CurrentScrolls[i].offset # CurrentScrolls[j].offset
    /\ CurrentScrolls # <<>> => CurrentScrolls[1].offset = NoOffset
    /\ ~all_processed /\ page # NoPage => offset = page.cursor
    /\ visits = page.n
    /\ points_count = page.n

\* C4 as stated: the returned set is the set of identifiers of all records of
\* all pages, every page reachable through the cursors having been fetched
\* exactly once, in cursor order: when the scan returns no cursor is left
\* unfollowed.
C4_EveryCursorFollowed ==
    pc = "scan" =>
        /\ ScanCollectsAll
        /\ all_processed => page.cursor = NoOffset

\* C4 amended: the returned set is the set of identifiers of all records of
\* the pages up to and including the first page that is empty or carries no
\* cursor; each of these pages is fetched exactly once, in cursor order, each
\* of their records is visited once, and an identifier occurring several times
\* appears once.
C4_ScanCollectsServedPages ==
    pc = "scan" =>
        /\ ScanCollectsAll
        /\ all_processed => page.cursor = NoOffset \/ page.n = 0
        /\ ~all_processed /\ page # NoPage => page.cursor # NoOffset /\ page.n > 0

\* a two-page scan has returned: three kinds of record served, two identifiers
C4_TwoPagesScanned ==
    /\ pc = "scan"
    /\ all_processed
    /\ Len(CurrentScrolls) = 2
    /\ served = {PAS3, PBWeb, PNone}
    /\ page.n = 2
    /\ Cardinality(unique_documents) = 2

\* this step is a scroll call
ScrollCalled == Len(calls') = Len(calls) + 1 /\ IsScrollCall(calls'[Len(calls')])

\* C5: the scan stops exactly when a fetch returns no cursor or an empty page.
\* A fetch whose page is read without raising ends the loop if and only if it
\* returned no cursor or no record; once the loop has ended no further scroll is
\* called and the function returns; a scroll is called only while no such page
\* has been returned, and with the cursor the previous fetch returned; and
\* since the service eventually returns such a page, the scan terminates.
C5_ScanStops ==
    /\ [][/\ ScrollCalled /\ pc' = "scan" =>
                (all_processed' <=> (page'.cursor = NoOffset \/ page'.n = 0))
          /\ ScrollCalled =>
                /\ ~all_processed
                /\ calls'[Len(calls')].offset = page.cursor
                /\ page # NoPage => page.cursor # NoOffset /\ page.n > 0
          /\ pc = "scan" /\ all_processed => calls' = calls /\ pc' # "scan"]_vars
    /\ (pc = "scan") ~> (pc # "scan")

\* the scan has stopped on an empty page that carried a cursor
C5_StoppedOnEmptyPage ==
    /\ pc = "scan"
    /\ all_processed
    /\ page.n = 0
    /\ page.cursor # NoOffset

\* C7: a record contributes "[<source>] : <document_name>" exactly when its
\* payload holds a nested metadata mapping with document_name (and source);
\* records with no payload, no nested metadata mapping or no document_name
\* contribute nothing; the scan raises only on a mapping with document_name and
\* no source; two records with metadata {document_name: a.txt, source: s3}
\* give the one-element set {"[s3] : a.txt"} whatever the reported point count.
C7_ContributingRecords ==
    /\ pc = "scan" =>
        /\ \A r \in served : Contributes(r) => IdsOf({r}) \subseteq unique_documents
        /\ \A id \in unique_documents : \E r \in served : Contributes(r) /\ id \in IdsOf({r})
        /\ (\A r \in served : ~Contributes(r)) => unique_documents = {}
        /\ served = {PAS3} =>
            unique_documents = {<<"[", "s", "3", "]", " ", ":", " ", "a", ".", "t", "x", "t">>}
    /\ (\E r \in served : LacksSource(r)) <=> exc = SourceKeyError

\* two identical records {document_name: a.txt, source: s3} on one page of a
\* collection for which the service reports a nonzero count
C7_TwoIdenticalRecords ==
    /\ pc = "scan"
    /\ all_processed
    /\ served = {PAS3}
    /\ page.n = 2
    /\ Len(CurrentScrolls) = 1
    /\ point_count = <<MaxReported>>
    /\ Cardinality(unique_documents) = 1

====
